---- MODULE Spec2Model ----
(***************************************************************************)
(* Session reconciliation of the verbal-assessment backend.                *)
(*                                                                         *)
(* Nested schema (backend/firebase_config.py): the "assessments"           *)
(* collection holds one session document per assessment id, each with a    *)
(* "results" sub-collection keyed by question id.  store_assessment_result *)
(* locates the user's open session, writes the per-question record, then   *)
(* merges the question into the session document.  update_assessment_status*)
(* force-sets a session's status.                                          *)
(*                                                                         *)
(* Flattened schema (backend/firebase_config_new.py, backend/              *)
(* migrate_data.py): the "assessment_items" collection holds one document  *)
(* per recorded answer under a store-generated id.  migrate_data and       *)
(* migrate_existing_data copy every nested result record into it through   *)
(* write batches.                                                          *)
(***************************************************************************)
EXTENDS Integers, Sequences, FiniteSets, Bags, TLC

(***************************************************************************)
(* Bounds of the model.                                                    *)
(***************************************************************************)
MaxTime == 1
MaxCalls == 5

(***************************************************************************)
(* Input domains.  Question identifiers are character sequences, so that   *)
(* startswith / replace / int() are modelled on the characters.            *)
(***************************************************************************)
Users == {"u1", "u2"}
q1 == <<"q", "1">>
q2 == <<"q", "2">>
q3 == <<"q", "3">>
q4 == <<"q", "4">>
qx == <<"q", "x">>
QuestionIds == {q1, q2, q3, q4, qx}
Overalls == {80, 85, 90}
Hints == {"auto_generated", "u1_0"}
Statuses == {"completed", "failed"}
ClientTime == 100

\* Optional values: a field or argument that may be missing / None.
None == <<>>
Some(v) == <<v>>

\* The failure sentinel (False) and a returned session id.
Failure == [ok |-> FALSE, id |-> ""]
Returned(id) == [ok |-> TRUE, id |-> id]

VARIABLES
    db,         \* TRUE when get_firestore_client() yields a client
    now,        \* int(time.time()) / the server clock
    sessions,   \* collection "assessments": id -> session document
    results,    \* sub-collections "results": <<id, question id>> -> record
    last,       \* the last completed call: its arguments and return value
    calls,      \* number of calls made so far
    procs,      \* concurrent calls: each request's position and local values
    items,      \* collection "assessment_items": a bag of flattened documents
    mig         \* the migrator: its position, batch and counters

vars == <<db, now, sessions, results, last, calls, procs, items, mig>>

(***************************************************************************)
(* Helpers of store_assessment_result.                                     *)
(***************************************************************************)
\* mutant: an identifier minted from the clock alone
MintIdNoUser(user_id, t) == "s_" \o ToString(t)

\* f"{user_id}_{int(time.time())}"
MintId(user_id, t) == user_id \o "_" \o ToString(t)

\* question_id.startswith('q')
StartsWithQ(qid) == Len(qid) > 0 /\ qid[1] = "q"

\* question_id.replace('q', '')
StripQ(qid) == SelectSeq(qid, LAMBDA c : c # "q")

Digits == {"0", "1", "2", "3", "4", "5", "6", "7", "8", "9"}
DigitVal(c) ==
    CASE c = "0" -> 0 [] c = "1" -> 1 [] c = "2" -> 2 [] c = "3" -> 3
      [] c = "4" -> 4 [] c = "5" -> 5 [] c = "6" -> 6 [] c = "7" -> 7
      [] c = "8" -> 8 [] OTHER -> 9

\* int(s) succeeds on a non-empty string of digits, else ValueError
IntParses(s) == Len(s) > 0 /\ \A i \in 1..Len(s) : s[i] \in Digits

RECURSIVE IntOf(_)
IntOf(s) == IF Len(s) = 0 THEN 0
            ELSE 10 * IntOf(SubSeq(s, 1, Len(s) - 1)) + DigitVal(s[Len(s)])

\* int(question_id.replace('q', '')) if question_id.startswith('q') else 1
QuestionNumRaises(qid) == StartsWithQ(qid) /\ ~IntParses(StripQ(qid))
QuestionNum(qid) == IF StartsWithQ(qid) THEN IntOf(StripQ(qid)) ELSE 1

total_questions == 3

\* x or firestore.SERVER_TIMESTAMP
OrServerTimestamp(x, t) == IF x # None THEN x[1] ELSE t

(***************************************************************************)
(* Session Locator (the loop over the user's assessments).                 *)
(***************************************************************************)
\* mutant: the query without its user_id filter
UserQueryAll(S, user_id) == DOMAIN S

\* assessments_ref.where("user_id", "==", user_id)
UserQuery(S, user_id) == {id \in DOMAIN S : S[id].user_id = user_id}

\* the orders in which stream() may enumerate a set of documents
Enumerations(ids) ==
    {e \in [1..Cardinality(ids) -> ids] : \A i, j \in DOMAIN e : i # j => e[i] # e[j]}

IsFullyCompleted(doc) == doc.status = "completed" /\ doc.completed_questions >= 3

\* mutant: the skip condition inverted
LocateInverted(enum, S) ==
    LET done == {i \in 1..Len(enum) : IsFullyCompleted(S[enum[i]])}
    IN  IF done = {} THEN None
        ELSE Some(enum[CHOOSE i \in done : \A j \in done : i <= j])

Locate(enum, S) ==
    LET open == {i \in 1..Len(enum) : ~IsFullyCompleted(S[enum[i]])}
    IN  IF open = {} THEN None
        ELSE Some(enum[CHOOSE i \in open : \A j \in open : i <= j])

(***************************************************************************)
(* The documents store_assessment_result writes.                           *)
(***************************************************************************)
QuestionEntry(overall) == [completed |-> TRUE, overall |-> overall]

ResultRecord(user_id, aid, qid, overall) ==
    [user_id |-> user_id, assessment_id |-> aid, question_id |-> qid, overall |-> overall]

\* mutant: the embedded map is replaced by the new entry alone
PutEntryAlone(qr, qid, overall) == [k \in {qid} |-> QuestionEntry(overall)]

\* question_results[question_id] = {...}
PutEntry(qr, qid, overall) ==
    [k \in DOMAIN qr \cup {qid} |-> IF k = qid THEN QuestionEntry(overall) ELSE qr[k]]

\* len([q for q in question_results.values() if q.get("completed", False)])
CountCompleted(qr) == Cardinality({k \in DOMAIN qr : qr[k].completed})

RECURSIVE SumOverall(_, _)
SumOverall(qr, keys) ==
    IF keys = {} THEN 0
    ELSE LET k == CHOOSE x \in keys : TRUE
         IN  qr[k].overall + SumOverall(qr, keys \ {k})

\* mutant: the best score instead of the mean
MeanScoreBest(qr) ==
    [num |-> CHOOSE m \in {qr[k].overall : k \in DOMAIN qr} :
                \A k \in DOMAIN qr : qr[k].overall <= m,
     den |-> 1]

\* total_score / total_questions, kept as an exact fraction
MeanScore(qr) == [num |-> SumOverall(qr, DOMAIN qr), den |-> total_questions]

\* mutant: completed_questions incremented on every submission
UpdatedDocIncrement(cur, qid, overall, start_time, end_time, t) ==
    LET qr == PutEntry(cur.question_results, qid, overall)
        completed_questions == cur.completed_questions + 1
        complete == completed_questions = total_questions
    IN  [cur EXCEPT
            !.question_results = qr,
            !.completed_questions = completed_questions,
            !.status = "completed",
            !.overall_score = IF complete THEN Some(MeanScore(qr)) ELSE @,
            !.assessment_end_time =
                IF complete THEN Some(OrServerTimestamp(end_time, t)) ELSE @,
            !.assessment_start_time =
                IF QuestionNum(qid) = 1 /\ cur.assessment_start_time = None
                THEN Some(OrServerTimestamp(start_time, t)) ELSE @]

\* the update of an existing session document (both update branches)
UpdatedDoc(cur, qid, overall, start_time, end_time, t) ==
    LET qr == PutEntry(cur.question_results, qid, overall)
        completed_questions == CountCompleted(qr)
        complete == completed_questions = total_questions
    IN  [cur EXCEPT
            !.question_results = qr,
            !.completed_questions = completed_questions,
            !.status = "completed",
            !.overall_score = IF complete THEN Some(MeanScore(qr)) ELSE @,
            !.assessment_end_time =
                IF complete THEN Some(OrServerTimestamp(end_time, t)) ELSE @,
            !.assessment_start_time =
                IF QuestionNum(qid) = 1 /\ cur.assessment_start_time = None
                THEN Some(OrServerTimestamp(start_time, t)) ELSE @]

\* mutant: a new session starts in progress
NewDocInProgress(user_id, qid, overall, start_time, end_time, t) ==
    LET last_question == QuestionNum(qid) = total_questions
    IN  [user_id |-> user_id,
         status |-> "in_progress",
         completed_questions |-> 1,
         question_results |-> [k \in {qid} |-> QuestionEntry(overall)],
         overall_score |->
            IF last_question THEN Some([num |-> overall, den |-> 1]) ELSE None,
         assessment_start_time |-> Some(OrServerTimestamp(start_time, t)),
         assessment_end_time |->
            IF last_question THEN Some(OrServerTimestamp(end_time, t)) ELSE None]

\* new_assessment
NewDoc(user_id, qid, overall, start_time, end_time, t) ==
    LET last_question == QuestionNum(qid) = total_questions
    IN  [user_id |-> user_id,
         status |-> "completed",
         completed_questions |-> 1,
         question_results |-> PutEntry(<<>>, qid, overall),
         overall_score |->
            IF last_question THEN Some([num |-> overall, den |-> 1]) ELSE None,
         assessment_start_time |-> Some(OrServerTimestamp(start_time, t)),
         assessment_end_time |->
            IF last_question THEN Some(OrServerTimestamp(end_time, t)) ELSE None]

\* mutant: set() that creates a document but never overwrites one
SetDocIfAbsent(coll, key, doc) ==
    [k \in DOMAIN coll \cup {key} |-> IF k \in DOMAIN coll THEN coll[k] ELSE doc]

\* doc_ref.set(...) on a document of either collection
SetDoc(coll, key, doc) ==
    [k \in DOMAIN coll \cup {key} |-> IF k = key THEN doc ELSE coll[k]]

(***************************************************************************)
(* store_assessment_result as a function of the store and its arguments.   *)
(* enum is the order in which stream() enumerated the user's sessions;     *)
(* raises names the store operation that raises during the call, if any.   *)
(***************************************************************************)
StoreOps == {"none", "stream", "result_set", "doc_get", "doc_write"}

\* mutant: a caller's id that is no placeholder is kept when nothing is located
ResolveIdKeepHint(located, user_id, hint, t) ==
    IF located # None THEN located[1]
    ELSE IF hint = "auto_generated" THEN MintId(user_id, t)
    ELSE hint

\* assessment_id after the locator: the located id, else a minted one
ResolveId(located, user_id, hint, t) ==
    IF located # None THEN located[1] ELSE MintId(user_id, t)

\* the session document after the three-way branch on the target document
MergedDoc(S, located, aid, user_id, qid, overall, start_time, end_time, t) ==
    IF located # None
    THEN UpdatedDoc(S[located[1]], qid, overall, start_time, end_time, t)
    ELSE IF aid \in DOMAIN S
    THEN UpdatedDoc(S[aid], qid, overall, start_time, end_time, t)
    ELSE NewDoc(user_id, qid, overall, start_time, end_time, t)

\* mutant: a write that raised is attempted again and then succeeds
StoreAssessmentResultRetry(S, R, t, user_id, hint, qid, overall, start_time, end_time, enum, raises) ==
    LET located == Locate(enum, S)
        aid == ResolveId(located, user_id, hint, t)
        R1 == SetDoc(R, <<aid, qid>>, ResultRecord(user_id, aid, qid, overall))
        doc == MergedDoc(S, located, aid, user_id, qid, overall, start_time, end_time, t)
    IN  IF raises = "stream"
        THEN [sessions |-> S, results |-> R, ret |-> Failure, located |-> None,
              raised |-> raises]
        ELSE IF raises = "doc_get" /\ located = None
        THEN [sessions |-> S, results |-> R1, ret |-> Failure, located |-> located,
              raised |-> raises]
        ELSE IF QuestionNumRaises(qid)
        THEN [sessions |-> S, results |-> R1, ret |-> Failure, located |-> located,
              raised |-> IF raises = "result_set" THEN raises ELSE "none"]
        ELSE [sessions |-> SetDoc(S, aid, doc), results |-> R1,
              ret |-> Returned(aid), located |-> located,
              raised |-> IF raises \in {"result_set", "doc_write"} THEN raises ELSE "none"]

\* raised is the store operation that did raise: a get or a write the call
\* never reaches does not
StoreAssessmentResult(S, R, t, user_id, hint, qid, overall, start_time, end_time, enum, raises) ==
    LET located == Locate(enum, S)
        aid == ResolveId(located, user_id, hint, t)
        R1 == SetDoc(R, <<aid, qid>>, ResultRecord(user_id, aid, qid, overall))
        doc == MergedDoc(S, located, aid, user_id, qid, overall, start_time, end_time, t)
    IN  IF raises = "stream"
        THEN [sessions |-> S, results |-> R, ret |-> Failure, located |-> None,
              raised |-> raises]
        ELSE IF raises = "result_set"
        THEN [sessions |-> S, results |-> R, ret |-> Failure, located |-> located,
              raised |-> raises]
        ELSE IF raises = "doc_get" /\ located = None
        THEN [sessions |-> S, results |-> R1, ret |-> Failure, located |-> located,
              raised |-> raises]
        ELSE IF QuestionNumRaises(qid)
        THEN [sessions |-> S, results |-> R1, ret |-> Failure, located |-> located,
              raised |-> "none"]
        ELSE IF raises = "doc_write"
        THEN [sessions |-> S, results |-> R1, ret |-> Failure, located |-> located,
              raised |-> raises]
        ELSE [sessions |-> SetDoc(S, aid, doc), results |-> R1,
              ret |-> Returned(aid), located |-> located, raised |-> "none"]

(***************************************************************************)
(* The state machine: sequential (non-overlapping) calls.                  *)
(***************************************************************************)
NoCall == [op |-> "none", user_id |-> "", question_id |-> <<>>, overall |-> 0,
           enum |-> <<>>, located |-> None, ret |-> Failure, raised |-> "none",
           assessment_id |-> "", item |-> None, summary |-> None]

Procs == {"p1", "p2"}

\* a request handler that has not started
Idle == [pc |-> "idle", user_id |-> "", question_id |-> <<>>, overall |-> 0,
         enum |-> <<>>, located |-> None, aid |-> "", doc |-> None, ret |-> Failure]

\* a migrator that has not run.  order is the enumeration of the assessments
\* collection, unreadable the sessions whose results stream raises, fail_at
\* the calls of batch.commit() of a run (first, second, ...) that raise,
\* commits the sizes of the batches committed by the current run, interrupted
\* the sessions whose loop was left by a commit that raised
NotMigrating ==
    [pc |-> "idle", variant |-> "script", order |-> <<>>, unreadable |-> {},
     fail_at |-> {}, client |-> FALSE, pos |-> 0, writes |-> 0, migrated |-> 0,
     batch |-> EmptyBag, attempts |-> 0, failed |-> 0, interrupted |-> {},
     commits |-> <<>>, ret |-> FALSE, runs |-> 0, oks |-> 0]

Init ==
    /\ procs = [p \in Procs |-> Idle]
    /\ items = EmptyBag
    /\ mig = NotMigrating
    /\ db \in BOOLEAN
    /\ now = 0
    /\ sessions = <<>>
    /\ results = <<>>
    /\ last = NoCall
    /\ calls = 0

\* serviceAccountKey.json becomes readable: the next call caches a client
Initialize ==
    /\ db = FALSE
    /\ db' = TRUE
    /\ UNCHANGED <<now, sessions, results, last, calls, procs, items, mig>>

\* the clock advances between calls
Tick ==
    /\ now < MaxTime
    /\ now' = now + 1
    /\ UNCHANGED <<db, sessions, results, last, calls, procs, items, mig>>

\* one call of store_assessment_result with no store client: mock storage
UpsertMock(user_id, hint, qid, overall) ==
    /\ db = FALSE
    /\ calls < MaxCalls
    /\ calls' = calls + 1
    /\ last' = [op |-> "mock", user_id |-> user_id, question_id |-> qid,
                overall |-> overall, enum |-> <<>>, located |-> None, ret |-> Returned(hint),
                raised |-> "none", assessment_id |-> "", item |-> None,
                summary |-> None]
    /\ UNCHANGED <<db, now, sessions, results, procs, items, mig>>

\* one call of store_assessment_result against an available store
Upsert(user_id, hint, qid, overall, start_time, end_time, raises) ==
    /\ db = TRUE
    /\ calls < MaxCalls
    /\ \E enum \in Enumerations(UserQuery(sessions, user_id)) :
         LET out == StoreAssessmentResult(sessions, results, now, user_id, hint, qid,
                                          overall, start_time, end_time, enum, raises)
         IN  /\ sessions' = out.sessions
             /\ results' = out.results
             /\ last' = [op |-> "upsert", user_id |-> user_id, question_id |-> qid,
                         overall |-> overall, enum |-> enum, located |-> out.located,
                         ret |-> out.ret, raised |-> out.raised,
                         assessment_id |-> "", item |-> None, summary |-> None]
    /\ calls' = calls + 1
    /\ UNCHANGED <<db, now, procs, items, mig>>

\* assessment_doc_ref.update({"status": status, ...}); NotFound on a missing document
StatusUpdated(S, assessment_id, status) ==
    [S EXCEPT ![assessment_id].status = status]

\* one call of update_assessment_status
MarkStatus(assessment_id, status) ==
    /\ db = TRUE
    /\ calls < MaxCalls
    /\ IF assessment_id \in DOMAIN sessions
       THEN /\ sessions' = StatusUpdated(sessions, assessment_id, status)
            /\ last' = [NoCall EXCEPT !.op = "mark", !.ret = Returned(assessment_id)]
       ELSE /\ sessions' = sessions
            /\ last' = [NoCall EXCEPT !.op = "mark"]
    /\ calls' = calls + 1
    /\ UNCHANGED <<db, now, results, procs, items, mig>>

SessionIds == {MintId(u, t) : u \in Users, t \in 0..MaxTime}
OptTimes == {None, Some(ClientTime)}

\* the calls of one client population: users U, question ids Q, overall
\* metrics O, client timestamps T, raising store operations F
Submissions(U, Q, O, T, F) ==
    \/ \E u \in U, h \in Hints, q \in Q, o \in O : UpsertMock(u, h, q, o)
    \/ \E u \in U, h \in Hints, q \in Q, o \in O, st \in T, et \in T, r \in F :
         Upsert(u, h, q, o, st, et, r)

StatusCalls ==
    \E id \in SessionIds \cup Hints, s \in Statuses : MarkStatus(id, s)

\* one user, every question identifier, a store that never raises
Next ==
    \/ Initialize
    \/ Tick
    \/ Submissions({"u1"}, QuestionIds, {80, 90}, {None}, {"none"})

Spec == Init /\ [][Next]_vars

\* the same submissions, with calls of update_assessment_status between them
NextStatus ==
    \/ Initialize
    \/ Tick
    \/ Submissions({"u1"}, QuestionIds, {80, 90}, {None}, {"none"})
    \/ StatusCalls

SpecStatus == Init /\ [][NextStatus]_vars

\* one user answering the three questions with any of the three scores
NextScores ==
    \/ Initialize
    \/ Tick
    \/ Submissions({"u1"}, {q1, q2, q3}, Overalls, {None}, {"none"})

SpecScores == Init /\ [][NextScores]_vars

\* one user, the three questions and a malformed id, any store operation may raise
NextFail ==
    \/ Initialize
    \/ Tick
    \/ Submissions({"u1"}, {q1, q2, q3, qx}, {80}, {None}, StoreOps)

SpecFail == Init /\ [][NextFail]_vars

\* two users sharing the store
NextUsers ==
    \/ Initialize
    \/ Tick
    \/ Submissions(Users, {q1, q2, q3}, {80}, {None}, {"none"})
    \/ StatusCalls

SpecUsers == Init /\ [][NextUsers]_vars

\* one user, the question identifiers that parse, a store that never raises:
\* every call returns a session id
NextAnswers ==
    \/ Initialize
    \/ Tick
    \/ Submissions({"u1"}, {q1, q2, q3, q4}, {80, 90}, {None}, {"none"})

SpecAnswers == Init /\ [][NextAnswers]_vars

(***************************************************************************)
(* Concurrent calls of store_assessment_result: each store operation of    *)
(* the handler is one step, and the steps of two requests interleave.      *)
(***************************************************************************)
\* mutant: the new document is created only if the user still has no open
\* session (a compare-and-set on creation)
CreatedGuarded(S, aid, user_id, qid, overall, t) ==
    IF \E id \in UserQuery(S, user_id) : ~IsFullyCompleted(S[id])
    THEN S
    ELSE SetDoc(S, aid, NewDoc(user_id, qid, overall, None, None, t))

\* assessment_doc_ref.set(new_assessment)
Created(S, aid, user_id, qid, overall, t) ==
    SetDoc(S, aid, NewDoc(user_id, qid, overall, None, None, t))

\* mutant: the update is computed from the document as stored at the time of
\* the write (a transactional read-modify-write)
UpdateAppliedFresh(current, snapshot, qid, overall, t) ==
    LET U == UpdatedDoc(current, qid, overall, None, None, t)
        complete == U.completed_questions = total_questions
    IN  [current EXCEPT
            !.question_results = U.question_results,
            !.completed_questions = U.completed_questions,
            !.status = U.status,
            !.overall_score = IF complete THEN U.overall_score ELSE @,
            !.assessment_end_time = IF complete THEN U.assessment_end_time ELSE @,
            !.assessment_start_time =
                IF QuestionNum(qid) = 1 /\ current.assessment_start_time = None
                THEN U.assessment_start_time ELSE @]

\* reference.update(update_data): update_data is computed from the snapshot
\* read earlier, its fields replace those of the stored document
UpdateApplied(current, snapshot, qid, overall, t) ==
    LET U == UpdatedDoc(snapshot, qid, overall, None, None, t)
        complete == U.completed_questions = total_questions
    IN  [current EXCEPT
            !.question_results = U.question_results,
            !.completed_questions = U.completed_questions,
            !.status = U.status,
            !.overall_score = IF complete THEN U.overall_score ELSE @,
            !.assessment_end_time = IF complete THEN U.assessment_end_time ELSE @,
            !.assessment_start_time =
                IF QuestionNum(qid) = 1 /\ snapshot.assessment_start_time = None
                THEN U.assessment_start_time ELSE @]

\* the stream() query, the locator loop and the choice of assessment_id
ConcLocate(p, user_id, hint, qid, overall) ==
    /\ db = TRUE
    /\ procs[p].pc \in {"idle", "done"}
    /\ calls < MaxCalls
    /\ calls' = calls + 1
    /\ \E enum \in Enumerations(UserQuery(sessions, user_id)) :
         LET located == Locate(enum, sessions)
         IN  procs' = [procs EXCEPT ![p] =
                [pc |-> "located", user_id |-> user_id, question_id |-> qid,
                 overall |-> overall, enum |-> enum, located |-> located,
                 aid |-> ResolveId(located, user_id, hint, now),
                 doc |-> IF located # None THEN Some(sessions[located[1]]) ELSE None,
                 ret |-> Failure]]
    /\ UNCHANGED <<db, now, sessions, results, last, items, mig>>

\* doc_ref.set(assessment_result) in the results sub-collection
ConcWriteResult(p) ==
    /\ procs[p].pc = "located"
    /\ results' = SetDoc(results, <<procs[p].aid, procs[p].question_id>>,
                         ResultRecord(procs[p].user_id, procs[p].aid,
                                      procs[p].question_id, procs[p].overall))
    /\ procs' = [procs EXCEPT ![p].pc = "result_written"]
    /\ UNCHANGED <<db, now, sessions, last, calls, items, mig>>

\* assessment_doc_ref.get() when nothing was located, then question_num
ConcReadDoc(p) ==
    /\ procs[p].pc = "result_written"
    /\ LET doc == IF procs[p].located # None THEN procs[p].doc
                  ELSE IF procs[p].aid \in DOMAIN sessions
                       THEN Some(sessions[procs[p].aid]) ELSE None
       IN  procs' = [procs EXCEPT
                ![p].doc = doc,
                ![p].pc = IF QuestionNumRaises(procs[p].question_id)
                          THEN "done" ELSE "doc_read"]
    /\ UNCHANGED <<db, now, sessions, results, last, calls, items, mig>>

\* the update or set of the session document, and the return
ConcWriteDoc(p) ==
    /\ procs[p].pc = "doc_read"
    /\ sessions' =
         IF procs[p].doc # None
         THEN [sessions EXCEPT ![procs[p].aid] =
                 UpdateApplied(@, procs[p].doc[1], procs[p].question_id,
                               procs[p].overall, now)]
         ELSE Created(sessions, procs[p].aid, procs[p].user_id,
                      procs[p].question_id, procs[p].overall, now)
    /\ procs' = [procs EXCEPT ![p].pc = "done", ![p].ret = Returned(procs[p].aid)]
    /\ UNCHANGED <<db, now, results, last, calls, items, mig>>

\* two request handlers serving one user
NextConc ==
    \/ Initialize
    \/ Tick
    \/ \E u \in {"u1"}, h \in Hints, q \in {q1, q2}, o \in {80} : UpsertMock(u, h, q, o)
    \/ \E p \in Procs, u \in {"u1"}, h \in Hints, q \in {q1, q2}, o \in {80} :
         ConcLocate(p, u, h, q, o)
    \/ \E p \in Procs : ConcWriteResult(p)
    \/ \E p \in Procs : ConcReadDoc(p)
    \/ \E p \in Procs : ConcWriteDoc(p)

SpecConc == Init /\ [][NextConc]_vars

\* two request handlers serving one user who answers the three questions
NextLost ==
    \/ Initialize
    \/ \E p \in Procs, u \in {"u1"}, h \in {"auto_generated"}, q \in {q1, q2, q3}, o \in {80} :
         ConcLocate(p, u, h, q, o)
    \/ \E p \in Procs : ConcWriteResult(p)
    \/ \E p \in Procs : ConcReadDoc(p)
    \/ \E p \in Procs : ConcWriteDoc(p)

SpecLost == Init /\ [][NextLost]_vars

(***************************************************************************)
(* Flattened schema: store_assessment_item, get_assessment_items and       *)
(* get_assessment_summary of firebase_config_new.py.                       *)
(***************************************************************************)
\* the Python values a metric can have: a number, a string, None
Number(n) == [py |-> "number", value |-> n, text |-> <<>>]
String(s) == [py |-> "string", value |-> 0, text |-> s]
PyNone == [py |-> "none", value |-> 0, text |-> <<>>]

\* d.get(key) and d.get(key, default) on a field that may be missing
PyGet(field) == IF field = None THEN PyNone ELSE field[1]
PyGetOr(field, default) == IF field = None THEN default ELSE field[1]

\* float(x) raises on None and on a string that is no number; the strings
\* of the model are strings of digits or of letters
FloatRaises(x) == x.py = "none" \/ (x.py = "string" /\ ~IntParses(x.text))
FloatOf(x) == IF x.py = "number" THEN x.value ELSE IntOf(x.text)

\* to_num(x, default): float(x), or default when float raises
to_num(x, default) == IF FloatRaises(x) THEN default ELSE Some(FloatOf(x))

\* the metric fields of a submission: result.overall of the SpeechSuper
\* response and scores.overall, each possibly missing
ResponseOveralls == {None, Some(Number(80)), Some(String(<<"n", "a">>))}
ScoresOveralls == {None, Some(Number(90))}

\* the document store_assessment_item builds
ItemDoc(user_id, assessment_id, qid, r_overall, s_overall) ==
    [user_id |-> user_id, assessment_id |-> assessment_id, question_id |-> qid,
     overall |-> to_num(PyGetOr(r_overall, PyGet(s_overall)), None)]

\* the id the store generates for the n-th document of assessment_items
AutoId(n) == "item_" \o ToString(n)

\* one call of store_assessment_item (or of the store_assessment_result
\* that delegates to it) with no store client
StoreItemMock(user_id, assessment_id, qid) ==
    /\ db = FALSE
    /\ calls < MaxCalls
    /\ calls' = calls + 1
    /\ last' = [NoCall EXCEPT !.op = "item_mock", !.user_id = user_id,
                              !.assessment_id = assessment_id, !.question_id = qid,
                              !.ret = Returned(assessment_id)]
    /\ UNCHANGED <<db, now, sessions, results, procs, items, mig>>

\* one call of store_assessment_item against an available store; raises
\* tells whether collection("assessment_items").add(doc) raises
StoreItem(user_id, assessment_id, qid, r_overall, s_overall, raises) ==
    /\ db = TRUE
    /\ calls < MaxCalls
    /\ calls' = calls + 1
    /\ LET doc == ItemDoc(user_id, assessment_id, qid, r_overall, s_overall)
           call == [NoCall EXCEPT !.op = "item", !.user_id = user_id,
                                  !.assessment_id = assessment_id, !.question_id = qid]
       IN  IF raises
           THEN /\ items' = items
                /\ last' = [call EXCEPT !.raised = "add"]
           ELSE /\ items' = items (+) SetToBag({doc})
                /\ last' = [call EXCEPT !.item = Some(doc),
                                        !.ret = Returned(AutoId(BagCardinality(items) + 1))]
    /\ UNCHANGED <<db, now, sessions, results, procs, mig>>

\* get_assessment_items: where user_id == ..., and where assessment_id == ...
\* when an assessment_id is given; the documents found, as a bag
ItemsQuery(I, user_id, assessment_id) ==
    [i \in {j \in BagToSet(I) :
                /\ j.user_id = user_id
                /\ assessment_id # "" => j.assessment_id = assessment_id}
        |-> I[i]]

\* the items of a bag whose overall is not None
PresentOverall(found) == [i \in {j \in BagToSet(found) : j.overall # None} |-> found[i]]

RECURSIVE SumOverallOf(_, _)
SumOverallOf(found, docs) ==
    IF docs = {} THEN 0
    ELSE LET d == CHOOSE x \in docs : TRUE
         IN  found[d] * d.overall[1] + SumOverallOf(found, docs \ {d})

\* mutant: an item without overall counts as 0
MeanOverallOfAll(found) ==
    Some([num |-> SumOverallOf(PresentOverall(found), BagToSet(PresentOverall(found))),
          den |-> BagCardinality(found)])

\* sum(overall_scores) / len(overall_scores) if overall_scores else None
MeanOverall(found) ==
    LET present == PresentOverall(found)
    IN  IF BagToSet(present) = {} THEN None
        ELSE Some([num |-> SumOverallOf(present, BagToSet(present)),
                   den |-> BagCardinality(present)])

\* mutant: completed from three items on
SummaryStatusFrom(k) == IF k >= 3 THEN "completed" ELSE "in_progress"

\* "completed" if total_questions == 3 else "in_progress"
SummaryStatus(k) == IF k = 3 THEN "completed" ELSE "in_progress"

\* the summary of a non-empty list of items
Summary(found, user_id, assessment_id) ==
    [assessment_id |-> assessment_id, user_id |-> user_id,
     total_questions |-> BagCardinality(found),
     completed_questions |-> BagCardinality(found),
     overall_score |-> MeanOverall(found),
     status |-> SummaryStatus(BagCardinality(found))]

\* the summary returned without a store client: three questions, 86.5
MockSummary(user_id, assessment_id) ==
    [assessment_id |-> assessment_id, user_id |-> user_id,
     total_questions |-> 3, completed_questions |-> 3,
     overall_score |-> Some([num |-> 173, den |-> 2]),
     status |-> "completed"]

\* the item get_assessment_items returns without a store client
MockItem(user_id, assessment_id) ==
    [user_id |-> user_id,
     assessment_id |-> IF assessment_id = "" THEN "mock_assessment" ELSE assessment_id,
     question_id |-> q1, overall |-> Some(85)]

\* what get_assessment_items returns, as a bag; raises tells whether the
\* query raises (the function then returns [])
GetAssessmentItems(client, I, user_id, assessment_id, raises) ==
    IF ~client THEN SetToBag({MockItem(user_id, assessment_id)})
    ELSE IF raises THEN EmptyBag
    ELSE ItemsQuery(I, user_id, assessment_id)

\* what get_assessment_summary returns
GetAssessmentSummary(client, I, user_id, assessment_id, raises) ==
    IF ~client THEN Some(MockSummary(user_id, assessment_id))
    ELSE LET found == GetAssessmentItems(client, I, user_id, assessment_id, raises)
         IN  IF BagToSet(found) = {} THEN None
             ELSE Some(Summary(found, user_id, assessment_id))

\* one call of get_assessment_summary; raises tells whether the query of
\* get_assessment_items raises
Summarize(user_id, assessment_id, raises) ==
    /\ LET call == [NoCall EXCEPT !.user_id = user_id, !.assessment_id = assessment_id]
           summary == GetAssessmentSummary(db, items, user_id, assessment_id, raises)
       IN  last' = IF ~db
                   THEN [call EXCEPT !.op = "summary_mock", !.summary = summary]
                   ELSE [call EXCEPT
                           !.op = "summary",
                           !.raised = IF raises THEN "stream" ELSE "none",
                           !.summary = summary]
    /\ UNCHANGED <<db, now, sessions, results, calls, procs, items, mig>>

\* the session ids submissions and summaries are made with
ItemSessions == {"u1_0", "u1_1"}

\* submissions of u1 through the flattened schema, summaries of u1 and u2
NextItems ==
    \/ Initialize
    \/ \E a \in ItemSessions, q \in {q1, q2} : StoreItemMock("u1", a, q)
    \/ \E a \in ItemSessions, q \in {q1, q2}, r \in ResponseOveralls,
          s \in ScoresOveralls, f \in BOOLEAN : StoreItem("u1", a, q, r, s, f)
    \/ \E u \in Users, a \in ItemSessions, f \in BOOLEAN : Summarize(u, a, f)

SpecItems == Init /\ [][NextItems]_vars

(***************************************************************************)
(* The schema migrator: migrate_data (migrate_data.py, variant "script")   *)
(* and migrate_existing_data (firebase_config_new.py, variant "module").   *)
(* One step per session of the assessments stream.                         *)
(***************************************************************************)
BatchLimit == 450
MaxRuns == 2
Variants == {"script", "module"}

\* mutant: a session without user_id is migrated like any other
HasUserIdAlways(doc) == TRUE

\* the negation of `if not user_id: continue`
HasUserId(doc) == doc.user_id # ""

\* mutant: the item takes its assessment_id from the owner's id
FlatItemOfUser(user_id, aid, qid, res) ==
    [user_id |-> user_id, assessment_id |-> user_id, question_id |-> qid,
     overall |-> to_num(Number(res.overall), None)]

\* the flattened document built from one result record: the session's
\* user_id, the session's id, the record's document id and its metric
FlatItem(user_id, aid, qid, res) ==
    [user_id |-> user_id, assessment_id |-> aid, question_id |-> qid,
     overall |-> to_num(Number(res.overall), None)]

\* the document ids of collection("assessments").document(aid).collection("results")
ResultIds(R, aid) == {k[2] : k \in {j \in DOMAIN R : j[1] = aid}}

\* mutant: the batch is committed once it holds more than the limit
ShouldCommitAbove(writes) == writes > BatchLimit

\* if writes >= 450
ShouldCommit(writes) == writes >= BatchLimit

\* mutant: committing an item also deletes the result record it came from
CommitBatchMove(I, R, b) ==
    [items |-> I (+) b,
     results |-> [k \in DOMAIN R \ {<<i.assessment_id, i.question_id>> : i \in BagToSet(b)}
                    |-> R[k]]]

\* mutant: an item is written under an id derived from its content, so a
\* second write of the same item replaces the first
CommitBatchKeyed(I, R, b) ==
    [items |-> SetToBag(BagToSet(I) \cup BagToSet(b)), results |-> R]

\* batch.commit(): every queued set() creates its document in
\* assessment_items; the store after the commit
CommitBatch(I, R, b) == [items |-> I (+) b, results |-> R]

\* mutant: the new batch replaces the queued one before it was committed
CommittedEmpty(st) ==
    [st EXCEPT !.batch = EmptyBag, !.writes = 0,
               !.commits = Append(@, BagCardinality(st.batch))]

\* batch.commit(); batch = db.batch(); writes = 0
Committed(st) ==
    LET out == CommitBatch(st.items, st.results, st.batch)
    IN  [st EXCEPT !.items = out.items, !.results = out.results,
                   !.batch = EmptyBag, !.writes = 0,
                   !.commits = Append(@, BagCardinality(st.batch))]

\* one call of batch.commit() with what follows it: a commit that raises
\* writes nothing and leaves the batch object, with its queued writes, and
\* the counter writes as they were
CommitCalled(st) ==
    IF (st.attempts + 1) \in st.fail_at
    THEN [st EXCEPT !.attempts = @ + 1, !.failed = @ + 1, !.raised = TRUE]
    ELSE [Committed(st) EXCEPT !.attempts = @ + 1]

\* the loop over one session's result documents, in stream order qids; an
\* exception leaves the loop
RECURSIVE QueueResults(_, _, _, _)
QueueResults(st, user_id, aid, qids) ==
    IF qids = <<>> \/ st.raised THEN st
    ELSE LET item == FlatItem(user_id, aid, Head(qids), st.results[<<aid, Head(qids)>>])
             queued == [st EXCEPT !.batch = @ (+) SetToBag({item}),
                                  !.writes = @ + 1,
                                  !.migrated = @ + 1]
             next == IF ShouldCommit(queued.writes) THEN CommitCalled(queued) ELSE queued
         IN  QueueResults(next, user_id, aid, Tail(qids))

\* the store and the migrator's locals, as threaded through the loops
MigState ==
    [items |-> items, results |-> results, batch |-> mig.batch,
     writes |-> mig.writes, migrated |-> mig.migrated, commits |-> mig.commits,
     attempts |-> mig.attempts, fail_at |-> mig.fail_at, failed |-> mig.failed,
     raised |-> FALSE]

\* the migrator's locals after a loop iteration or the final commit
MigLocals(st) ==
    [mig EXCEPT !.batch = st.batch, !.writes = st.writes, !.migrated = st.migrated,
                !.commits = st.commits, !.attempts = st.attempts,
                !.failed = st.failed]

\* the migrator obtains a client, a batch and zeroed counters; without a
\* client it returns False
MigBegin ==
    /\ mig.pc \in {"idle", "done"}
    /\ mig.runs < MaxRuns
    /\ mig' = [mig EXCEPT !.pc = IF db THEN "running" ELSE "done",
                          !.client = db, !.pos = 0, !.writes = 0, !.migrated = 0,
                          !.batch = EmptyBag, !.commits = <<>>, !.ret = FALSE,
                          !.attempts = 0, !.failed = 0, !.interrupted = {},
                          !.runs = @ + 1]
    /\ UNCHANGED <<db, now, sessions, results, last, calls, procs, items>>

\* one iteration of the loop over the assessments stream
MigSession ==
    /\ mig.pc = "running"
    /\ mig.pos < Len(mig.order)
    /\ LET aid == mig.order[mig.pos + 1]
           doc == sessions[aid]
       IN  IF ~HasUserId(doc)
           THEN /\ mig' = [mig EXCEPT !.pos = @ + 1]
                /\ UNCHANGED <<items, results>>
           ELSE IF aid \in mig.unreadable
           THEN /\ mig' = IF mig.variant = "script"
                          THEN [mig EXCEPT !.pos = @ + 1]
                          ELSE [mig EXCEPT !.pc = "done", !.ret = FALSE]
                /\ UNCHANGED <<items, results>>
           ELSE \E qids \in Enumerations(ResultIds(results, aid)) :
                  LET st == QueueResults(MigState, doc.user_id, aid, qids)
                  IN  /\ items' = st.items
                      /\ results' = st.results
                      /\ mig' = IF ~st.raised
                                THEN [MigLocals(st) EXCEPT !.pos = @ + 1]
                                ELSE IF mig.variant = "script"
                                THEN [MigLocals(st) EXCEPT
                                        !.pos = @ + 1,
                                        !.interrupted = @ \cup {aid}]
                                ELSE [MigLocals(st) EXCEPT
                                        !.pc = "done", !.ret = FALSE,
                                        !.interrupted = @ \cup {aid}]
    /\ UNCHANGED <<db, now, sessions, last, calls, procs>>

\* after the last session: the remaining writes are committed and True is
\* returned; a final commit that raises makes the run return False
MigFinish ==
    /\ mig.pc = "running"
    /\ mig.pos = Len(mig.order)
    /\ LET st == IF mig.writes # 0 THEN CommitCalled(MigState) ELSE MigState
       IN  /\ items' = st.items
           /\ results' = st.results
           /\ mig' = [MigLocals(st) EXCEPT
                        !.pc = "done", !.ret = ~st.raised,
                        !.oks = IF st.raised THEN @ ELSE @ + 1]
    /\ UNCHANGED <<db, now, sessions, last, calls, procs>>

(***************************************************************************)
(* The nested corpora the migrator is run on: n sessions of u1 with the    *)
(* three questions answered, and at most one further session, enumerated   *)
(* first or last, of one of the kinds below.                               *)
(***************************************************************************)
CorpusSizes ==
    {0, 1, (BatchLimit \div total_questions) - 1, BatchLimit \div total_questions}
SpecialKinds == {"none", "no_user", "one", "two", "unreadable"}
Positions == {"first", "last"}

\* the session document after user_id answered the questions qs at time t
RECURSIVE Answered(_, _, _)
Answered(user_id, qs, t) ==
    IF Len(qs) = 1
    THEN NewDoc(user_id, qs[1], 80, None, None, t)
    ELSE UpdatedDoc(Answered(user_id, SubSeq(qs, 1, Len(qs) - 1), t),
                    qs[Len(qs)], 80, None, None, t)

SpecialUser(kind) == IF kind = "no_user" THEN "" ELSE "u2"

SpecialQuestions(kind) ==
    IF kind = "one" THEN <<q1>>
    ELSE IF kind = "unreadable" THEN <<q1, q2, q3>>
    ELSE <<q1, q2>>

Corpus(n, kind, at) ==
    LET regular == [i \in 1..n |-> MintId("u1", i)]
        special == IF kind = "none" THEN <<>> ELSE <<MintId(SpecialUser(kind), 0)>>
        order == IF at = "first" THEN special \o regular ELSE regular \o special
        S == [id \in {order[i] : i \in 1..Len(order)} |->
                IF special # <<>> /\ id = special[1]
                THEN Answered(SpecialUser(kind), SpecialQuestions(kind), 0)
                ELSE Answered("u1", <<q1, q2, q3>>,
                              CHOOSE i \in 1..n : regular[i] = id)]
        keys == UNION {{<<id, q>> : q \in DOMAIN S[id].question_results} : id \in DOMAIN S}
    IN  [sessions |-> S,
         results |-> [k \in keys |->
                        ResultRecord(S[k[1]].user_id, k[1], k[2],
                                     S[k[1]].question_results[k[2]].overall)],
         order |-> order,
         unreadable |-> IF kind = "unreadable" THEN {special[1]} ELSE {}]

InitMig ==
    /\ procs = [p \in Procs |-> Idle]
    /\ db \in BOOLEAN
    /\ now = 0
    /\ last = NoCall
    /\ calls = 0
    /\ items = EmptyBag
    /\ \E n \in CorpusSizes, kind \in SpecialKinds, at \in Positions, v \in Variants :
         LET c == Corpus(n, kind, at)
         IN  /\ sessions = c.sessions
             /\ results = c.results
             /\ mig = [NotMigrating EXCEPT !.variant = v, !.order = c.order,
                                           !.unreadable = c.unreadable]

NextMig ==
    \/ Initialize
    \/ MigBegin
    \/ MigSession
    \/ MigFinish

SpecMig == InitMig /\ [][NextMig]_vars

\* the corpora of 451 and 452 records, with commits that raise: the first
\* call of batch.commit() of each run, or the first two
FailingCommits == {{1}, {1, 2}}

InitCommit ==
    /\ procs = [p \in Procs |-> Idle]
    /\ db = TRUE
    /\ now = 0
    /\ last = NoCall
    /\ calls = 0
    /\ items = EmptyBag
    /\ \E kind \in {"one", "two"}, at \in Positions, v \in Variants, f \in FailingCommits :
         LET c == Corpus(BatchLimit \div total_questions, kind, at)
         IN  /\ sessions = c.sessions
             /\ results = c.results
             /\ mig = [NotMigrating EXCEPT !.variant = v, !.order = c.order,
                                           !.fail_at = f]

NextCommit ==
    \/ MigBegin
    \/ MigSession
    \/ MigFinish

SpecCommit == InitCommit /\ [][NextCommit]_vars

(***************************************************************************)
(* The denormalized fields of a flattened item, as store_assessment_item   *)
(* builds them from a submission and as the migrators build them from the  *)
(* nested result record of the same submission.  The two migrators build   *)
(* the document with the same expressions.                                 *)
(***************************************************************************)
Metrics == {"overall", "pronunciation", "fluency", "rhythm", "integrity"}

\* the truth value of a Python value, as in `a or b`
Truthy(x) == (x.py = "number" /\ x.value # 0) \/ (x.py = "string" /\ x.text # <<>>)
PyOr(a, b) == IF Truthy(a) THEN a ELSE b

\* the stored value of a field that holds a number or None
Stored(n) == IF n = None THEN PyNone ELSE Number(n[1])

\* to_num(x, default) with a default that is any Python value
ToNumOr(x, default) ==
    LET n == to_num(x, None) IN IF n = None THEN default ELSE Number(n[1])

\* the values of a metric in result (missing, a number, a numeric string, a
\* string that is no number) and in scores
RawValues ==
    {None, Some(Number(80)), Some(String(<<"8", "5">>)), Some(String(<<"n", "a">>))}
ScoresValues == {None, Some(Number(90)), Some(String(<<"n", "a">>))}

\* one choice for overall, one for pronunciation, one for the other metrics
MetricChoices(values) ==
    {[m \in Metrics |-> IF m = "overall" THEN a
                        ELSE IF m = "pronunciation" THEN b ELSE c] :
        a \in values, b \in values, c \in values}

Transcriptions == {String(<<>>), String(<<"o", "k">>)}
Recognitions == {None, Some(String(<<"h", "m">>))}
Durations == {Number(0), Number(30)}
NumericDurations == {None, Some(Number(31))}

\* the arguments of a submission: the SpeechSuper response (its result
\* fields), scores, transcription and duration
Payloads ==
    {[response |-> [metrics |-> raw, recognition |-> rec, numeric_duration |-> nd],
      scores |-> sc, transcription |-> tr, duration |-> du] :
        raw \in MetricChoices(RawValues), sc \in MetricChoices(ScoresValues),
        tr \in Transcriptions, rec \in Recognitions,
        du \in Durations, nd \in NumericDurations}

\* assessment_result of store_assessment_result: the arguments as given
AssessmentResult(user_id, aid, qid, p) ==
    [user_id |-> user_id, assessment_id |-> aid, question_id |-> qid,
     scores |-> p.scores, transcription |-> Some(p.transcription),
     duration |-> Some(p.duration), speechsuper_response |-> p.response]

\* the arguments a result record was stored with
PayloadOf(res) ==
    [response |-> res.speechsuper_response, scores |-> res.scores,
     transcription |-> res.transcription[1], duration |-> res.duration[1]]

\* doc of store_assessment_item
ItemOfPayload(user_id, aid, qid, p) ==
    LET r == p.response
    IN  [user_id |-> user_id, assessment_id |-> aid, question_id |-> qid,
         transcription |-> PyOr(p.transcription, PyGet(r.recognition)),
         duration_seconds |-> PyOr(p.duration, PyGet(r.numeric_duration)),
         metrics |-> [m \in Metrics |->
                        Stored(to_num(PyGetOr(r.metrics[m], PyGet(p.scores[m])), None))]]

\* mutant: the migrators convert like store_assessment_item
ItemOfRecordAsStored(user_id, aid, qid, res) ==
    [user_id |-> user_id, assessment_id |-> aid, question_id |-> qid,
     transcription |-> PyOr(PyGet(res.transcription),
                            PyGet(res.speechsuper_response.recognition)),
     duration_seconds |-> PyOr(PyGet(res.duration),
                               PyGet(res.speechsuper_response.numeric_duration)),
     metrics |-> [m \in Metrics |->
                    Stored(to_num(PyGetOr(res.speechsuper_response.metrics[m],
                                          PyGet(res.scores[m])), None))]]

\* doc of migrate_data and of migrate_existing_data
ItemOfRecord(user_id, aid, qid, res) ==
    LET r == res.speechsuper_response
    IN  [user_id |-> user_id, assessment_id |-> aid, question_id |-> qid,
         transcription |-> PyGetOr(res.transcription, PyGet(r.recognition)),
         duration_seconds |-> ToNumOr(PyGet(res.duration), PyGet(r.numeric_duration)),
         metrics |-> [m \in Metrics |->
                        ToNumOr(PyGet(r.metrics[m]), PyGet(res.scores[m]))]]

\* the session id the direct submission is made with
DirectSession == "u1_1"

\* the store after store_assessment_result("u1", ..., q1, ...) at time 0
\* with one of the payloads
InitMetrics ==
    /\ procs = [p \in Procs |-> Idle]
    /\ db = TRUE
    /\ now = 0
    /\ last = NoCall
    /\ calls = 0
    /\ items = EmptyBag
    /\ mig = NotMigrating
    /\ \E p \in Payloads :
         LET aid == MintId("u1", 0)
             overall == IF p.scores["overall"] = Some(Number(90)) THEN 90 ELSE 0
         IN  /\ sessions = [id \in {aid} |-> NewDoc("u1", q1, overall, None, None, 0)]
             /\ results = [k \in {<<aid, q1>>} |-> AssessmentResult("u1", aid, q1, p)]

\* one run of a migrator over a corpus below the batch limit: every result
\* record of every session with a user_id becomes an item, committed at the end
MigrateRecords ==
    /\ db = TRUE
    /\ mig.pc = "idle"
    /\ LET built == {ItemOfRecord(sessions[k[1]].user_id, k[1], k[2], results[k]) :
                        k \in {j \in DOMAIN results : HasUserId(sessions[j[1]])}}
       IN  /\ items' = items (+) SetToBag(built)
           /\ mig' = [mig EXCEPT !.pc = "done", !.client = TRUE, !.ret = TRUE,
                                 !.runs = @ + 1, !.oks = @ + 1,
                                 !.migrated = Cardinality(built),
                                 !.commits = <<Cardinality(built)>>]
    /\ UNCHANGED <<db, now, sessions, results, last, calls, procs>>

\* store_assessment_item called with the arguments a result record was
\* stored with, under the session id DirectSession
StoreSameItem ==
    /\ db = TRUE
    /\ calls < MaxCalls
    /\ \A i \in BagToSet(items) : i.assessment_id # DirectSession
    /\ \E k \in DOMAIN results :
         LET doc == ItemOfPayload(results[k].user_id, DirectSession, k[2],
                                  PayloadOf(results[k]))
         IN  /\ items' = items (+) SetToBag({doc})
             /\ last' = [NoCall EXCEPT
                           !.op = "item", !.user_id = doc.user_id,
                           !.assessment_id = DirectSession, !.question_id = k[2],
                           !.item = Some(doc),
                           !.ret = Returned(AutoId(BagCardinality(items) + 1))]
    /\ calls' = calls + 1
    /\ UNCHANGED <<db, now, sessions, results, procs, mig>>

NextMetrics ==
    \/ MigrateRecords
    \/ StoreSameItem

SpecMetrics == InitMetrics /\ [][NextMetrics]_vars


(***************************************************************************)
(* Properties.                                                             *)
(***************************************************************************)
OpenSessions(user_id) ==
    {id \in UserQuery(sessions, user_id) : ~IsFullyCompleted(sessions[id])}

\* the last call was a store_assessment_result on an available store that
\* returned a session id
UpsertReturned == last.op = "upsert" /\ last.ret.ok

\* C1: with the store available, after any sequence of sequential calls of
\* store_assessment_result and update_assessment_status every user has at most
\* one open session (one that is not both status completed and 3 questions).
C1_AtMostOneOpenSession ==
    \A u \in Users : Cardinality(OpenSessions(u)) <= 1

C2_WitnessSecond ==
    /\ UpsertReturned
    /\ Cardinality(UserQuery(sessions, last.user_id)) = 2

\* C3: submitting a question id already recorded in the located open session
\* replaces that question's entry and its result record with the submitted
\* result; the session keeps the same set of entries, one for that question,
\* and completed_questions is unchanged.
C3_ResubmissionOverwrites ==
    [][(/\ calls' = calls + 1
        /\ last'.op = "upsert"
        /\ last'.ret.ok
        /\ last'.located # None
        /\ last'.question_id \in
              DOMAIN sessions[last'.located[1]].question_results)
       => LET id == last'.located[1]
              q == last'.question_id
          IN  /\ last'.ret.id = id
              /\ DOMAIN sessions' = DOMAIN sessions
              /\ DOMAIN sessions'[id].question_results
                    = DOMAIN sessions[id].question_results
              /\ sessions'[id].question_results[q]
                    = [completed |-> TRUE, overall |-> last'.overall]
              /\ sessions'[id].completed_questions = sessions[id].completed_questions
              /\ DOMAIN results' = DOMAIN results
              /\ results'[<<id, q>>].overall = last'.overall
              /\ \A k \in DOMAIN results : k # <<id, q>> => results'[k] = results[k]
      ]_vars

\* two calls were made, both merged into one session, which has one entry:
\* the second call resubmitted the question of the first
C3_Witness ==
    /\ calls = 2
    /\ UpsertReturned
    /\ last.located # None
    /\ DOMAIN sessions[last.ret.id].question_results = {last.question_id}
    /\ sessions[last.ret.id].completed_questions = 1
    /\ results[<<last.ret.id, last.question_id>>].overall = 90

\* C4: in every reachable state every session's completed_questions is in 0..3.
C4_CompletedQuestionsInRange ==
    \A id \in DOMAIN sessions : sessions[id].completed_questions \in 0..3

\* C5: a session document carries an overall_score iff its
\* completed_questions equals 3.
C5_OverallScoreIffComplete ==
    \A id \in DOMAIN sessions :
        sessions[id].overall_score # None <=> sessions[id].completed_questions = 3

\* C6: a session with completed_questions = 3 has as overall_score the sum of
\* the overall metrics of its three recorded results divided by 3 (the latest
\* value of a resubmitted question), and an assessment_end_time; three calls
\* recording q1 = 80, q2 = 85, q3 = 90 for u1 leave one session document with
\* completed_questions = 3 and overall_score = 85.
EndToEndResults ==
    [k \in {q1, q2, q3} |->
        [completed |-> TRUE, overall |-> IF k = q1 THEN 80 ELSE IF k = q2 THEN 85 ELSE 90]]

C6_OverallScoreIsMean ==
    /\ \A id \in DOMAIN sessions :
          sessions[id].completed_questions = 3 =>
            LET qr == sessions[id].question_results
            IN  /\ Cardinality(DOMAIN qr) = 3
                /\ sessions[id].overall_score # None
                /\ \E a, b, c \in DOMAIN qr :
                      /\ {a, b, c} = DOMAIN qr
                      /\ sessions[id].overall_score[1].num
                            = qr[a].overall + qr[b].overall + qr[c].overall
                      /\ sessions[id].overall_score[1].den = 3
                /\ \A k \in DOMAIN qr :
                      results[<<id, k>>].overall = qr[k].overall
                /\ sessions[id].assessment_end_time # None
    /\ (calls = 3 /\ \E id \in DOMAIN sessions :
                        sessions[id].question_results = EndToEndResults)
       => /\ Cardinality(DOMAIN sessions) = 1
          /\ \A id \in DOMAIN sessions :
                /\ sessions[id].user_id = "u1"
                /\ sessions[id].completed_questions = 3
                /\ sessions[id].overall_score # None
                /\ sessions[id].overall_score[1].num
                      = 85 * sessions[id].overall_score[1].den
                /\ sessions[id].assessment_end_time # None

\* u1 has submitted q1 = 80, q2 = 85, q3 = 90 in three calls
C6_Witness ==
    /\ calls = 3
    /\ UpsertReturned
    /\ last.question_id = q3
    /\ sessions[last.ret.id].question_results = EndToEndResults
    /\ sessions[last.ret.id].overall_score = Some([num |-> 255, den |-> 3])

\* C7: with the store available, what a call of store_assessment_result
\* writes and returns is the same for every caller-supplied assessment id, an
\* existing session's id included; when the user has an open session the call
\* returns that session, records the question in it and creates no document.
C7_HintIgnored ==
    [][(calls' = calls + 1 /\ last'.op = "upsert")
       => \A h \in Hints \cup DOMAIN sessions :
            LET u == last'.user_id
                q == last'.question_id
                out == StoreAssessmentResult(sessions, results, now, u, h, q,
                                             last'.overall, None, None, last'.enum, "none")
            IN  /\ sessions' = out.sessions
                /\ results' = out.results
                /\ last'.ret = out.ret
                /\ OpenSessions(u) # {} =>
                      /\ out.ret.ok
                      /\ out.ret.id \in OpenSessions(u)
                      /\ DOMAIN out.sessions = DOMAIN sessions
                      /\ q \in DOMAIN out.sessions[out.ret.id].question_results
      ]_vars

\* a call was merged into the user's open session while a hint names another,
\* existing session
C7_Witness ==
    /\ UpsertReturned
    /\ last.located # None
    /\ \E h \in Hints : h \in DOMAIN sessions /\ h # last.ret.id

\* C8: the locator enumerates exactly the sessions whose user_id is the
\* submitting user's, returns the first of them in enumeration order that is
\* not (status completed and completed_questions >= 3), and returns none
\* exactly when every one of them is fully completed.
C8_LocatorFirstOpen ==
    [][(calls' = calls + 1 /\ last'.op = "upsert")
       => LET u == last'.user_id
              enum == last'.enum
              mine == {id \in DOMAIN sessions : sessions[id].user_id = u}
              closed(id) == /\ sessions[id].status = "completed"
                            /\ sessions[id].completed_questions >= 3
          IN  /\ {enum[i] : i \in 1..Len(enum)} = mine
              /\ Len(enum) = Cardinality(mine)
              /\ last'.located = None <=> \A id \in mine : closed(id)
              /\ last'.located # None =>
                    \E i \in 1..Len(enum) :
                        /\ last'.located = Some(enum[i])
                        /\ ~closed(enum[i])
                        /\ \A j \in 1..(i - 1) : closed(enum[j])
      ]_vars

\* the locator skipped a fully completed session and returned the next one
C8_Witness ==
    /\ last.op = "upsert"
    /\ Len(last.enum) = 2
    /\ last.located = Some(last.enum[2])
    /\ IsFullyCompleted(sessions[last.enum[1]])

\* C9: a call of store_assessment_result that returns a session id returns the
\* resolved one (the located session, else the minted id); the session
\* document with that id exists, belongs to the submitting user, and has the
\* question in its question_results and in its result records.
C9_ReturnsResolvedSession ==
    [][(calls' = calls + 1 /\ last'.op = "upsert" /\ last'.ret.ok)
       => LET id == last'.ret.id
              q == last'.question_id
          IN  /\ id = IF last'.located # None THEN last'.located[1]
                      ELSE MintId(last'.user_id, now)
              /\ id \in DOMAIN sessions'
              /\ sessions'[id].user_id = last'.user_id
              /\ q \in DOMAIN sessions'[id].question_results
              /\ sessions'[id].question_results[q].overall = last'.overall
              /\ <<id, q>> \in DOMAIN results'
              /\ results'[<<id, q>>] = ResultRecord(last'.user_id, id, q, last'.overall)
      ]_vars

\* a second question was merged into an existing session and returned
C9_Witness ==
    /\ UpsertReturned
    /\ last.located # None
    /\ Cardinality(DOMAIN sessions[last.ret.id].question_results) >= 2
    /\ <<last.ret.id, last.question_id>> \in DOMAIN results

\* C10: when two concurrent calls for the same user have both run the
\* locator while the user had no session document and minted different ids,
\* then once both have returned the user has two session documents, both
\* open: nothing in the handler keeps the second from creating its session.
C10_BothCreateSession ==
    \A p, r \in Procs :
        (/\ p # r
         /\ procs[p].pc = "done" /\ procs[r].pc = "done"
         /\ procs[p].ret.ok /\ procs[r].ret.ok
         /\ procs[p].user_id = procs[r].user_id
         /\ procs[p].enum = <<>> /\ procs[r].enum = <<>>
         /\ procs[p].aid # procs[r].aid)
        => /\ {procs[p].aid, procs[r].aid} \subseteq OpenSessions(procs[p].user_id)
           /\ Cardinality(OpenSessions(procs[p].user_id)) = 2

\* both calls observed no session and each created one: two open sessions
C10_Witness ==
    /\ procs["p1"].pc = "done" /\ procs["p2"].pc = "done"
    /\ procs["p1"].ret.ok /\ procs["p2"].ret.ok
    /\ procs["p1"].user_id = "u1" /\ procs["p2"].user_id = "u1"
    /\ procs["p1"].enum = <<>> /\ procs["p2"].enum = <<>>
    /\ procs["p1"].located = None /\ procs["p2"].located = None
    /\ Cardinality(OpenSessions("u1")) = 2

\* C11: when two concurrent calls for two different questions, neither yet
\* recorded, were both merged into the same open session after reading the
\* same snapshot of it, then once both have returned the session's
\* question_results is the snapshot's map plus the question of one of the two
\* calls only, and completed_questions counts that one only, although both
\* result records were written: one submission is lost.
C11_LostUpdate ==
    \A p, r \in Procs :
        (/\ p # r
         /\ procs[p].pc = "done" /\ procs[r].pc = "done"
         /\ procs[p].ret.ok /\ procs[r].ret.ok
         /\ procs[p].located # None
         /\ procs[p].located = procs[r].located
         /\ procs[p].doc = procs[r].doc
         /\ procs[p].question_id # procs[r].question_id
         /\ {procs[p].question_id, procs[r].question_id}
               \cap DOMAIN procs[p].doc[1].question_results = {})
        => LET id == procs[p].located[1]
               before == procs[p].doc[1]
           IN  /\ \E w \in {p, r} :
                     DOMAIN sessions[id].question_results
                        = DOMAIN before.question_results \cup {procs[w].question_id}
               /\ sessions[id].completed_questions = before.completed_questions + 1
               /\ <<id, procs[p].question_id>> \in DOMAIN results
               /\ <<id, procs[r].question_id>> \in DOMAIN results

\* q2 and q3 were submitted concurrently into a session holding q1, and both
\* calls returned the session
C11_Witness ==
    /\ procs["p1"].pc = "done" /\ procs["p2"].pc = "done"
    /\ procs["p1"].ret.ok /\ procs["p2"].ret.ok
    /\ procs["p1"].located # None
    /\ procs["p1"].located = procs["p2"].located
    /\ procs["p1"].doc = procs["p2"].doc
    /\ DOMAIN procs["p1"].doc[1].question_results = {q1}
    /\ procs["p1"].question_id = q2 /\ procs["p2"].question_id = q3
    /\ sessions[procs["p1"].aid].completed_questions = 2

\* the mock id of the second, unreachable availability test:
\* f"{user_id}_mock_{int(time.time())}"
MockId(user_id, t) == user_id \o "_mock_" \o ToString(t)

\* C12: when the store is unavailable a call of upsert raises no error and
\* returns an id of the form "{user_id}_mock_{timestamp}", whatever the user
\* and the caller-supplied id.
C12_MockIdForm ==
    last.op = "mock" =>
        /\ last.ret.ok
        /\ \E t \in 0..MaxTime : last.ret.id = MockId(last.user_id, t)

\* C13: when a write to the available store raises during a call of
\* store_assessment_result, the call returns False, not a session id, and the
\* write that raised is not made by that call: a failed result-record write
\* leaves the store unchanged, a failed session-document write leaves the
\* session documents unchanged (the result record written before it stays).
C13_WriteFailureReturnsFalse ==
    [][(/\ calls' = calls + 1
        /\ last'.op = "upsert"
        /\ last'.raised \in {"result_set", "doc_write"})
       => LET aid == IF last'.located # None THEN last'.located[1]
                     ELSE MintId(last'.user_id, now)
              q == last'.question_id
          IN  /\ last'.ret = Failure
              /\ sessions' = sessions
              /\ IF last'.raised = "result_set"
                 THEN results' = results
                 ELSE results' = SetDoc(results, <<aid, q>>,
                                        ResultRecord(last'.user_id, aid, q, last'.overall))
      ]_vars

\* the write of the first session document raised: the call returned False,
\* no session exists and the result record written before it is there
C13_Witness ==
    /\ last.op = "upsert"
    /\ last.raised = "doc_write"
    /\ last.ret = Failure
    /\ sessions = <<>>
    /\ DOMAIN results = {<<MintId(last.user_id, 0), last.question_id>>}

(***************************************************************************)
(* Properties of the migrator.                                             *)
(***************************************************************************)
\* the number of flattened items carrying this session id and question id
ItemCount(aid, qid) ==
    BagCardinality([i \in {j \in BagToSet(items) :
                              j.assessment_id = aid /\ j.question_id = qid}
                      |-> items[i]])

\* the result records of the sessions that have a user_id and whose
\* processing raised nothing: neither the read of their results nor a commit
\* made inside their loop
Migratable ==
    {k \in DOMAIN results : /\ HasUserId(sessions[k[1]])
                            /\ k[1] \notin mig.unreadable
                            /\ k[1] \notin mig.interrupted}

\* a first run that returned True over a corpus in which every session has
\* a user_id and no read raises
CleanFirstRun ==
    /\ mig.pc = "done"
    /\ mig.ret
    /\ mig.oks = 1
    /\ mig.unreadable = {}
    /\ mig.fail_at = {}
    /\ \A id \in DOMAIN sessions : sessions[id].user_id # ""

\* C14: over a corpus in which every session has a user_id and nothing
\* fails, one run creates exactly one flattened item per nested result
\* record: N records give N items, and the item of a record carries the id of
\* its session as assessment_id, that session's user_id and the record's
\* question_id.
C14_OneItemPerRecord ==
    CleanFirstRun =>
        /\ BagCardinality(items) = Cardinality(DOMAIN results)
        /\ mig.migrated = Cardinality(DOMAIN results)
        /\ \A k \in DOMAIN results : ItemCount(k[1], k[2]) = 1
        /\ \A i \in BagToSet(items) :
              /\ <<i.assessment_id, i.question_id>> \in DOMAIN results
              /\ i.user_id = sessions[i.assessment_id].user_id

\* two sessions of two users, five records, five items
C14_Witness ==
    /\ CleanFirstRun
    /\ Len(mig.order) = 2
    /\ Cardinality(DOMAIN results) = 5
    /\ BagCardinality(items) = 5

\* C15: when no read and no commit fails, every committed batch holds at most 450 writes;
\* between sessions the queue holds fewer than 450 writes, all of them queued
\* since the last commit; a finished run over N items has made ceil(N / 450)
\* commits, all of 450 writes except a non-empty remainder committed last
\* (451 items: 450 then 1; 450 items: one commit; no item: no commit).
C15_BatchesOfLimit ==
    (mig.unreadable = {} /\ mig.fail_at = {}) =>
        /\ \A c \in 1..Len(mig.commits) : mig.commits[c] \in 1..BatchLimit
        /\ mig.pc = "running" =>
              /\ mig.writes < BatchLimit
              /\ BagCardinality(mig.batch) = mig.writes
              /\ mig.migrated = BatchLimit * Len(mig.commits) + mig.writes
        /\ (mig.pc = "done" /\ mig.ret) =>
              LET N == mig.migrated
                  count == (N + BatchLimit - 1) \div BatchLimit
              IN  /\ Len(mig.commits) = count
                  /\ \A c \in 1..(count - 1) : mig.commits[c] = BatchLimit
                  /\ count > 0 => mig.commits[count] = N - BatchLimit * (count - 1)
                  /\ N = BatchLimit + 1 => mig.commits = <<BatchLimit, 1>>
                  /\ N = BatchLimit => mig.commits = <<BatchLimit>>

\* a run over 451 records committed 450 writes and then 1
C15_Witness ==
    /\ mig.pc = "done"
    /\ mig.ret
    /\ mig.unreadable = {}
    /\ mig.migrated = 451
    /\ mig.commits = <<450, 1>>
    /\ BagCardinality(items) = 451

\* a run over 450 records made a single commit
C15_WitnessExact ==
    /\ mig.pc = "done"
    /\ mig.ret
    /\ mig.migrated = 450
    /\ mig.commits = <<450>>

\* C16: a session without user_id yields no item and does not end the run:
\* when no read fails the run returns True with every session enumerated,
\* no item carries the id of a session without user_id, and every record of
\* every other session, enumerated before or after it, has its item.
C16_NoUserSkipped ==
    (/\ mig.pc = "done"
     /\ mig.client
     /\ mig.oks <= 1
     /\ mig.unreadable = {}
     /\ mig.fail_at = {})
    => /\ mig.ret
       /\ mig.pos = Len(mig.order)
       /\ \A k \in DOMAIN results :
             ItemCount(k[1], k[2]) = IF sessions[k[1]].user_id = "" THEN 0 ELSE 1

\* the session without user_id was enumerated first and the three records of
\* the session after it were migrated
C16_Witness ==
    /\ mig.pc = "done"
    /\ mig.ret
    /\ mig.oks = 1
    /\ Len(mig.order) = 2
    /\ sessions[mig.order[1]].user_id = ""
    /\ BagCardinality(items) = 3
    /\ \A i \in BagToSet(items) : i.assessment_id = mig.order[2]

\* C17: when the read of one session's results raises, migrate_data and
\* migrate_existing_data both go on with the next session: the run ends with
\* every session enumerated and every readable session's records migrated.
C17_ReadFailureContinues ==
    (mig.pc = "done" /\ mig.client /\ mig.oks <= 1 /\ mig.fail_at = {})
    => /\ mig.pos = Len(mig.order)
       /\ \A k \in Migratable : ItemCount(k[1], k[2]) = 1

C19_SourceUnchanged ==
    [][mig' # mig => /\ sessions' = sessions
                     /\ results' = results
                     /\ UNCHANGED <<db, now, last, calls, procs>>]_vars

\* a run has written items and the six records it read are still there
C19_Witness ==
    /\ mig.pc = "done"
    /\ mig.ret
    /\ BagCardinality(items) = 6
    /\ Cardinality(DOMAIN results) = 6
    /\ Cardinality(DOMAIN sessions) = 2

\* C20: after two runs that returned True over the same corpus, every
\* migratable result record has two flattened items: N records, 2N items.
C20_TwoRunsDoubleItems ==
    (mig.pc = "done" /\ mig.ret /\ mig.oks = 2 /\ mig.fail_at = {})
    => /\ BagCardinality(items) = 2 * Cardinality(Migratable)
       /\ \A k \in Migratable : ItemCount(k[1], k[2]) = 2

\* both runs migrated the five records of two sessions: ten items
C20_Witness ==
    /\ mig.pc = "done"
    /\ mig.ret
    /\ mig.oks = 2
    /\ Cardinality(Migratable) = 5
    /\ BagCardinality(items) = 10

\* C23: a call writes a session's assessment_start_time only if its question
\* index is 1 and the session had none before; a session's
\* assessment_start_time, once present, is never changed.
C23_StartTimeOnlyByFirstQuestion ==
    [][(calls' = calls + 1 /\ last'.op = "upsert" /\ last'.ret.ok)
       => \A id \in DOMAIN sessions' :
            LET before == IF id \in DOMAIN sessions
                          THEN sessions[id].assessment_start_time ELSE None
                after == sessions'[id].assessment_start_time
            IN  after # before =>
                    /\ before = None
                    /\ QuestionNum(last'.question_id) = 1
      ]_vars

\* C24: a session whose completed_questions is below 3 has no
\* assessment_end_time, and a session's assessment_end_time, once present, is
\* not changed by any later write.
C24_EndTimeSetOnceAtThree ==
    [][\A id \in DOMAIN sessions' :
          /\ sessions'[id].completed_questions < 3
                => sessions'[id].assessment_end_time = None
          /\ (id \in DOMAIN sessions /\ sessions[id].assessment_end_time # None)
                => sessions'[id].assessment_end_time = sessions[id].assessment_end_time
      ]_vars

\* C25: when the locator finds no open session, a call made with a hint that
\* names an existing session document returns that document's id, and a call
\* made with any other hint returns the minted id.  (The step is the same
\* for every hint, so it is a call with each of them.)
C25_HintReusedWhenNothingLocated ==
    [][(/\ calls' = calls + 1
        /\ last'.op = "upsert"
        /\ last'.ret.ok
        /\ last'.located = None)
       => \A h \in Hints :
            last'.ret.id = IF h \in DOMAIN sessions THEN h
                           ELSE MintId(last'.user_id, now)
      ]_vars

RECURSIVE SumSeq(_)
SumSeq(q) == IF q = <<>> THEN 0 ELSE Head(q) + SumSeq(Tail(q))

\* the value of a Python bool where a number is expected: True == 1
BoolAsInt(b) == IF b THEN 1 ELSE 0

\* C21: a run that returns after committing N items returns N.
C21_ReturnsCount ==
    (mig.pc = "done" /\ mig.client /\ mig.ret)
    => BoolAsInt(mig.ret) = SumSeq(mig.commits)

\* C22: when a commit of a run has raised, the run still goes through every
\* session, no batch it commits holds more than 450 writes, and the writes
\* of the batch that failed are in no later commit: the items it has
\* committed when it ends are the ones queued after the failure.
C22_FailedCommitLosesItsBatchOnly ==
    (mig.pc = "done" /\ mig.client /\ mig.failed > 0 /\ mig.runs = 1)
    => /\ mig.pos = Len(mig.order)
       /\ \A c \in 1..Len(mig.commits) : mig.commits[c] <= BatchLimit
       /\ BagCardinality(items) <= mig.migrated - BatchLimit

(***************************************************************************)
(* Properties of the flattened schema.                                     *)
(***************************************************************************)
\* the number of persisted items of a (user, session) pair, and the number
\* of them whose overall metric is a given value
PairCount(user_id, assessment_id) ==
    BagCardinality([i \in {j \in BagToSet(items) :
                              j.user_id = user_id /\ j.assessment_id = assessment_id}
                      |-> items[i]])

PairCountWith(user_id, assessment_id, overall) ==
    BagCardinality([i \in {j \in BagToSet(items) :
                              /\ j.user_id = user_id
                              /\ j.assessment_id = assessment_id
                              /\ j.overall = overall}
                      |-> items[i]])

\* the last call was a get_assessment_summary on an available store whose
\* query did not raise
SummaryReturned == last.op = "summary" /\ last.raised = "none"

\* C26: after any submissions through store_assessment_item there is at most
\* one item per session id and question id.
C26_OneItemPerQuestion ==
    \A i \in BagToSet(items) : ItemCount(i.assessment_id, i.question_id) <= 1

\* C27: a submission through store_assessment_item that succeeds on an
\* available store returns the assessment_id of the item it wrote.
C27_ReturnsItemSession ==
    (last.op = "item" /\ last.ret.ok)
    => last.ret.id = last.item[1].assessment_id

\* C28: the summary of a (user, session) pair with k >= 1 persisted items
\* has total_questions = completed_questions = k, and status completed when
\* k = 3, in_progress for every other k.
C28_SummaryCountsItems ==
    SummaryReturned =>
        LET k == PairCount(last.user_id, last.assessment_id)
        IN  k >= 1 =>
              /\ last.summary # None
              /\ last.summary[1].total_questions = k
              /\ last.summary[1].completed_questions = k
              /\ last.summary[1].status = IF k = 3 THEN "completed" ELSE "in_progress"

\* the summary of a pair with four items is in progress
C28_Witness ==
    /\ SummaryReturned
    /\ PairCount(last.user_id, last.assessment_id) = 4
    /\ last.summary[1].total_questions = 4
    /\ last.summary[1].status = "in_progress"

\* the summary of a pair with three items is completed
C28_WitnessThree ==
    /\ SummaryReturned
    /\ PairCount(last.user_id, last.assessment_id) = 3
    /\ last.summary[1].status = "completed"

\* C29: the overall_score of a summary is the sum of the overall metrics of
\* the pair's items that have one, divided by the number of those items, and
\* none when no item of the pair has one.  (The metrics stored are 80 and 90.)
C29_MeanOfPresentOveralls ==
    (SummaryReturned /\ last.summary # None)
    => LET u == last.user_id
           a == last.assessment_id
           n80 == PairCountWith(u, a, Some(80))
           n90 == PairCountWith(u, a, Some(90))
           absent == PairCountWith(u, a, None)
           score == last.summary[1].overall_score
       IN  /\ n80 + n90 + absent = PairCount(u, a)
           /\ IF n80 + n90 = 0 THEN score = None
              ELSE /\ score # None
                   /\ score[1].num = 80 * n80 + 90 * n90
                   /\ score[1].den = n80 + n90

\* three items, one of them without overall: the mean of the other two
C29_Witness ==
    /\ SummaryReturned
    /\ PairCount(last.user_id, last.assessment_id) = 3
    /\ PairCountWith(last.user_id, last.assessment_id, None) = 1
    /\ last.summary[1].overall_score = Some([num |-> 170, den |-> 2])

\* items, none with an overall: a summary without overall_score
C29_WitnessNone ==
    /\ SummaryReturned
    /\ PairCount(last.user_id, last.assessment_id) = 2
    /\ last.summary # None
    /\ last.summary[1].overall_score = None

\* C30: a call of get_assessment_summary for a pair without persisted item
\* returns none, with or without a store client.
C30_NoSummaryWithoutItems ==
    (/\ last.op \in {"summary", "summary_mock"}
     /\ PairCount(last.user_id, last.assessment_id) = 0)
    => last.summary = None

(***************************************************************************)
(* Further properties of the nested schema.                                *)
(***************************************************************************)
\* the session documents a step created or changed
Written == {id \in DOMAIN sessions' : id \notin DOMAIN sessions \/ sessions'[id] # sessions[id]}

\* a step that is one call of store_assessment_result on an available store
UpsertStep == calls' = calls + 1 /\ last'.op = "upsert"

\* C32: every session document a call of store_assessment_result writes has
\* status completed after the write, from the first write on and whatever
\* its completed_questions; the call writes no other status value.
C32_UpsertWritesCompleted ==
    [][UpsertStep => \A id \in Written : sessions'[id].status = "completed"]_vars

\* a session with two questions answered that the last call wrote as completed
C32_Witness ==
    /\ UpsertReturned
    /\ sessions[last.ret.id].completed_questions = 2
    /\ sessions[last.ret.id].status = "completed"

\* the same with one question, the first write of the session
C32_WitnessFirstWrite ==
    /\ UpsertReturned
    /\ sessions[last.ret.id].completed_questions = 1
    /\ sessions[last.ret.id].status = "completed"

\* C34: a call of store_assessment_result for one user creates and changes
\* only session documents of that user and returns the id of one of them;
\* the session documents of every other user are as before the call.
C34_OtherUsersSessionsUntouched ==
    [][UpsertStep =>
         /\ \A id \in Written : sessions'[id].user_id = last'.user_id
         /\ \A id \in DOMAIN sessions :
              sessions[id].user_id # last'.user_id
                  => id \in DOMAIN sessions' /\ sessions'[id] = sessions[id]
         /\ last'.ret.ok =>
              /\ last'.ret.id \in DOMAIN sessions'
              /\ sessions'[last'.ret.id].user_id = last'.user_id
      ]_vars

\* u2 submits while u1's session u1_0 exists (it is one of the hints) and
\* u2 has no open session: the call creates a session of u2's own
C34_Witness ==
    /\ UpsertReturned
    /\ last.user_id = "u2"
    /\ last.located = None
    /\ "u1_0" \in DOMAIN sessions
    /\ sessions["u1_0"].user_id = "u1"
    /\ sessions[last.ret.id].user_id = "u2"
    /\ last.ret.id = MintId("u2", 0)

\* C35: a call of store_assessment_result that returns the failure sentinel
\* leaves the session documents and the result records as they were.
C35_FailureLeavesStoreUnchanged ==
    [][(UpsertStep /\ last'.ret = Failure)
       => sessions' = sessions /\ results' = results]_vars

\* C36: without calls of update_assessment_status, a submission changes
\* neither question_results, completed_questions nor overall_score of a
\* session that is fully completed, and it returns another session's id.
C36_CompletedSessionFrozen ==
    [][UpsertStep =>
         \A id \in DOMAIN sessions :
            IsFullyCompleted(sessions[id]) =>
              /\ sessions'[id].question_results = sessions[id].question_results
              /\ sessions'[id].completed_questions = sessions[id].completed_questions
              /\ sessions'[id].overall_score = sessions[id].overall_score
              /\ last'.ret.ok => last'.ret.id # id
      ]_vars

\* C37: when every call returned a session id, the keys of each session's
\* question_results are the ids of its result records and
\* completed_questions is their number.
C37_EmbeddedMapMatchesRecords ==
    \A id \in DOMAIN sessions :
        /\ DOMAIN sessions[id].question_results = ResultIds(results, id)
        /\ sessions[id].completed_questions = Cardinality(ResultIds(results, id))

\* a session with four answered questions and four result records
C37_Witness ==
    /\ UpsertReturned
    /\ Cardinality(ResultIds(results, last.ret.id)) = 4
    /\ sessions[last.ret.id].completed_questions = 4

(***************************************************************************)
(* Round trip through the flattened schema.                                *)
(***************************************************************************)
\* the last call was a store_assessment_item that returned a non-failure value
ItemStored == last.op \in {"item", "item_mock"} /\ last.ret.ok

\* C31: after store_assessment_item returned a non-failure value,
\* get_assessment_items for the same user and session returns a list with an
\* item that has the submitted user_id, assessment_id and question_id (and is
\* the document written, when one was), and get_assessment_summary returns a
\* summary.
C31_StoredItemIsRetrieved ==
    ItemStored =>
        LET found == GetAssessmentItems(db, items, last.user_id, last.assessment_id, FALSE)
        IN  /\ \E i \in BagToSet(found) :
                  /\ i.user_id = last.user_id
                  /\ i.assessment_id = last.assessment_id
                  /\ i.question_id = last.question_id
                  /\ last.item # None => i = last.item[1]
            /\ GetAssessmentSummary(db, items, last.user_id, last.assessment_id, FALSE) # None

\* the same for a call that wrote its item to the store
C31_WrittenItemIsRetrieved == last.op = "item" => C31_StoredItemIsRetrieved

(***************************************************************************)
(* Properties of the denormalized fields.                                  *)
(***************************************************************************)
\* the items the migrator built from the result record k
MigratedFrom(k) ==
    {i \in BagToSet(items) : i.assessment_id = k[1] /\ i.question_id = k[2]}

\* C33: each metric of a migrated item is the numeric value of the field of
\* the raw result when the record has that field, and the record's scores
\* value for that metric when it has not.
C33_MetricFromRawElseScores ==
    \A k \in DOMAIN results : \A i \in MigratedFrom(k) : \A m \in Metrics :
        LET raw == results[k].speechsuper_response.metrics[m]
        IN  i.metrics[m] = IF raw # None THEN Stored(to_num(raw[1], None))
                           ELSE PyGet(results[k].scores[m])

\* each metric of a migrated item is the numeric value of the field of the
\* raw result when the record has that field and it converts to a number,
\* and else the record's scores value for that metric, as it is
C33_MetricFromConvertibleRaw ==
    \A k \in DOMAIN results : \A i \in MigratedFrom(k) : \A m \in Metrics :
        LET raw == results[k].speechsuper_response.metrics[m]
        IN  i.metrics[m] = IF raw # None /\ ~FloatRaises(raw[1])
                           THEN Number(FloatOf(raw[1]))
                           ELSE PyGet(results[k].scores[m])

\* a migrated item whose overall is the scores value because the raw field
\* is no number, whose pronunciation is the number the raw string converts
\* to, and whose other metrics are the scores value for lack of a raw field
C33_Witness ==
    \E k \in DOMAIN results : \E i \in MigratedFrom(k) :
        LET raw == results[k].speechsuper_response.metrics
        IN  /\ raw["overall"] = Some(String(<<"n", "a">>))
            /\ i.metrics["overall"] = Number(90)
            /\ raw["pronunciation"] = Some(String(<<"8", "5">>))
            /\ i.metrics["pronunciation"] = Number(85)
            /\ raw["fluency"] = None
            /\ i.metrics["fluency"] = String(<<"n", "a">>)

\* C38: the item store_assessment_item builds from a submission and the item
\* a migrator builds from the nested record of the same submission have the
\* same metrics, transcription and duration_seconds.
C38_SameValuesEitherWay ==
    \A d, g \in BagToSet(items) :
        (/\ d.assessment_id = DirectSession
         /\ g.assessment_id # DirectSession
         /\ d.question_id = g.question_id)
        => /\ d.metrics = g.metrics
           /\ d.transcription = g.transcription
           /\ d.duration_seconds = g.duration_seconds

====
